---- MODULE Spec2Model ----
(***************************************************************************)
(* A model of apify_haystack/apify_dataset.py: the three Haystack          *)
(* components ApifyDatasetLoader, ApifyDatasetFromActorCall and            *)
(* ApifyDatasetFromTaskCall, and the helper _merge_inputs.                 *)
(*                                                                         *)
(* The Apify platform is the environment: the answer of actor(..).call,    *)
(* task(..).call and dataset(..).list_items is chosen by the platform,     *)
(* every call may also raise.  The caller chooses the constructor and run  *)
(* arguments.  One component is constructed and then run any number of     *)
(* times; each run is followed statement by statement, with one action per *)
(* remote call and one per record handed to the mapping function.          *)
(***************************************************************************)
EXTENDS Integers, Sequences, FiniteSets, TLC

\* ---------------------------------------------------------------- bounds

\* Longest dataset the platform returns.
MaxLen == 2

\* ---------------------------------------------------------------- values

\* Python's None for the optional string arguments, and the empty string.
None == "None"
Empty == ""

\* dict | None: a record that says whether the value is None, and the dict
\* as a function from its keys to their values.
EmptyDict == [k \in {} |-> None]
NoneDict == [isNone |-> TRUE, d |-> EmptyDict]
Some(d) == [isNone |-> FALSE, d |-> d]

\* Keys of the run inputs the caller passes and the values each may have
\* (a start url is a number here).
Keys == {"maxCrawlPages", "startUrls"}
ValsOf(k) == IF k = "maxCrawlPages" THEN {3, 5} ELSE {7}
InputDicts ==
    UNION {{d \in [S -> {3, 5, 7}] : \A k \in S : d[k] \in ValsOf(k)} :
           S \in SUBSET Keys}
OptInputs == {NoneDict} \cup {Some(d) : d \in InputDicts}

\* The api token argument and the APIFY_API_TOKEN environment variable.
TokenArgs == {None, Empty, "tok_arg"}
EnvTokens == {None, Empty, "tok_env"}

\* Identifiers.
ActorIds == {"apify/website-content-crawler"}
TaskIds == {"user/my-task"}
DatasetIds == {"d1", "d2"}

\* build, memory_mbytes, timeout_secs as the caller gives them.
LimitChoices ==
    { [build |-> "latest", memory_mbytes |-> "512", timeout_secs |-> None] }

\* Dataset items, documents, and the mapping functions of the caller: a
\* mapping function gives a document for a record, or raises on it.
Records == {"r1", "r2"}
Docs == {"docA", "docB"}
Raise == "raise"
MapFns == [Records -> Docs \cup {Raise}]
Datasets == UNION {[1..n -> Records] : n \in 0..MaxLen}

\* What actor(..).call / task(..).call return: None or a run dict.
RunDicts ==
    { EmptyDict,
      [id |-> "run1"],
      [defaultDatasetId |-> Empty],
      [id |-> "run1", defaultDatasetId |-> None],
      [defaultDatasetId |-> "d1"],
      [id |-> "run1", defaultDatasetId |-> "d2"] }
Responses == {NoneDict} \cup {Some(d) : d \in RunDicts}

\* ---------------------------------------------------------------- python

\* bool(x) of an optional string and of an optional dict.
TruthyStr_NoneOnly(s) == s # None
TruthyStr(s) == s # None /\ s # Empty
Truthy_NoneOnly(x) == ~x.isNone
Truthy(x) == ~x.isNone /\ DOMAIN x.d # {}

\* a or b
OrStr(a, b) == IF TruthyStr(a) THEN a ELSE b
OrDict(a, b) == IF Truthy(a) THEN a ELSE b

\* a | b on dicts: the keys of both, the value of b where b has the key.
DictUnion(a, b) ==
    [k \in DOMAIN a \cup DOMAIN b |-> IF k \in DOMAIN b THEN b[k] ELSE a[k]]

\* d.get(k) on a dict of strings.
Get(d, k) == IF k \in DOMAIN d THEN d[k] ELSE None

\* _merge_inputs(input1, input2)
merge_inputs_first_only(input1, input2) == OrDict(input1, input2)
merge_inputs(input1, input2) ==
    IF Truthy(input1) /\ Truthy(input2)
    THEN Some(DictUnion(input1.d, input2.d))
    ELSE OrDict(input1, input2)

\* apify_api_token or os.getenv("APIFY_API_TOKEN")
resolve_token_env_first(apify_api_token, env) == OrStr(env, apify_api_token)
resolve_token(apify_api_token, env) == OrStr(apify_api_token, env)

\* ApifyClient(token)
ApifyClient(token) == [token |-> token]

\* ---------------------------------------------------------------- state
\* (Records are written with their fields in one fixed order throughout.)

VARIABLES
    env_token,     \* os.environ["APIFY_API_TOKEN"], "None" when unset
    kind,          \* the component the caller constructed
    token_arg,     \* the apify_api_token argument of the constructor
    self,          \* the Actor or Task component: its attributes
    dsl,           \* the ApifyDatasetLoader in use: its attributes
    pc,            \* where the caller's current call stands
    call_input,    \* the run_input / task_input argument of run
    local_input,   \* run's local run_input / task_input after line 144 / 232
    actor_call,    \* run's local actor_call
    listed,        \* the items the platform returned to list_items
    docs,          \* the documents mapped so far
    calls,         \* remote calls made during the current run
    clients,       \* ApifyClient objects built during the current operation
    outcome,       \* what the caller got from the last operation
    constructed,   \* the attributes as the constructor assigned them
    earlier_id     \* the dataset id an earlier run got from its call, if any

vars == <<env_token, kind, token_arg, self, dsl, pc, call_input, local_input,
          actor_call, listed, docs, calls, clients, outcome, constructed,
          earlier_id>>

\* A local variable of run that nothing has been assigned to yet.
Unbound == [isNone |-> TRUE, d |-> EmptyDict, unbound |-> TRUE]

NoFn == [r \in {} |-> None]
NoSelf ==
    [build |-> None, memory_mbytes |-> None, timeout_secs |-> None,
     id |-> None, dataset_mapping_function |-> NoFn, input |-> NoneDict,
     client |-> ApifyClient(None), has_client |-> FALSE]
NoDsl ==
    [dataset_mapping_function |-> NoFn, client |-> ApifyClient(None),
     has_client |-> FALSE, dataset_id |-> None]

Pending == [status |-> "pending", err |-> None, documents |-> <<>>]
Returned(documents) == [status |-> "ok", err |-> None, documents |-> documents]
Raised(err) == [status |-> "error", err |-> err, documents |-> <<>>]

\* The errors: the four ValueErrors of the module by their message, the
\* remote client's own error, and the mapping function's.
ErrToken == "ValueError: Apify API token not found"
ErrInput == "ValueError: Please provide the input"
ErrNoResponse == "ValueError: No response found"
ErrNoDataset == "ValueError: No dataset found"
ErrTransport == "ApifyApiError"
ErrMapping == "MappingError"

Init ==
    /\ env_token \in EnvTokens
    /\ kind = "none"
    /\ token_arg = None
    /\ self = NoSelf
    /\ dsl = NoDsl
    /\ pc = "NEW"
    /\ call_input = NoneDict
    /\ local_input = NoneDict
    /\ actor_call = Unbound
    /\ listed = <<>>
    /\ docs = <<>>
    /\ calls = <<>>
    /\ clients = <<>>
    /\ outcome = Pending
    /\ constructed = NoSelf
    /\ earlier_id = None

\* ---------------------------------------------------------------- remote calls

\* One entry of the log of remote calls: the request as the client sends it.
TriggerRequest(op, client, id, input, build, memory_mbytes, timeout_secs) ==
    [build |-> build, memory_mbytes |-> memory_mbytes,
     timeout_secs |-> timeout_secs, id |-> id, token |-> client.token,
     input |-> input, op |-> op, clean |-> FALSE]

\* self.client.actor(self.actor_id).call(run_input=run_input, build=self.build, ...)
ActorCallRequest(obj, run_input) ==
    TriggerRequest("actor.call", obj.client, obj.id, run_input,
                   obj.build, obj.memory_mbytes, obj.timeout_secs)

\* self.client.task(self.task_id).call(task_input=self.task_input, build=self.build, ...)
TaskCallRequest(obj, task_input) ==
    TriggerRequest("task.call", obj.client, obj.id, obj.input,
                   obj.build, obj.memory_mbytes, obj.timeout_secs)

\* self.client.dataset(self.dataset_id).list_items(clean=True)
ListItemsRequest(loader) ==
    [build |-> None, memory_mbytes |-> None, timeout_secs |-> None,
     id |-> loader.dataset_id, token |-> loader.client.token,
     input |-> NoneDict, op |-> "dataset.list_items", clean |-> TRUE]

\* ---------------------------------------------------------------- constructors

\* ApifyDatasetLoader.__init__
ApifyDatasetLoader(dataset_id, dataset_mapping_function) ==
    [dataset_mapping_function |-> dataset_mapping_function,
     client |-> ApifyClient(None), has_client |-> TRUE,
     dataset_id |-> dataset_id]

\* The attributes ApifyDatasetFromActorCall.__init__ and
\* ApifyDatasetFromTaskCall.__init__ assign before they look for the token.
Attributes(id, f, input, limits) ==
    [build |-> limits.build, memory_mbytes |-> limits.memory_mbytes,
     timeout_secs |-> limits.timeout_secs,
     id |-> id, dataset_mapping_function |-> f, input |-> input,
     client |-> ApifyClient(None), has_client |-> FALSE]

\* The rest of the two constructors: resolve the token, raise or build the
\* client.
InitClient(k, attrs, apify_api_token) ==
    LET token == resolve_token(apify_api_token, env_token) IN
    /\ pc = "NEW"
    /\ kind' = k
    /\ token_arg' = apify_api_token
    /\ IF ~TruthyStr(token)
       THEN /\ self' = attrs
            /\ clients' = <<>>
            /\ outcome' = Raised(ErrToken)
            /\ pc' = "INIT_FAILED"
       ELSE /\ self' = [attrs EXCEPT !.client = ApifyClient(token),
                                     !.has_client = TRUE]
            /\ clients' = <<ApifyClient(token)>>
            /\ outcome' = Pending
            /\ pc' = "CONFIGURED"
    /\ constructed' = attrs
    /\ UNCHANGED <<env_token, dsl, call_input, local_input, actor_call,
                   listed, docs, calls, earlier_id>>

DatasetLoaderInit ==
    \E dataset_id \in DatasetIds, f \in MapFns :
        /\ pc = "NEW"
        /\ kind' = "dataset"
        /\ dsl' = ApifyDatasetLoader(dataset_id, f)
        /\ clients' = <<dsl'.client>>
        /\ pc' = "CONFIGURED"
        /\ UNCHANGED <<env_token, token_arg, self, call_input, local_input,
                       actor_call, listed, docs, calls, outcome,
                   constructed, earlier_id>>

ActorInit ==
    \E actor_id \in ActorIds, f \in MapFns, run_input \in OptInputs,
       limits \in LimitChoices, apify_api_token \in TokenArgs :
        InitClient("actor", Attributes(actor_id, f, run_input, limits),
                   apify_api_token)

TaskInit ==
    \E task_id \in TaskIds, f \in MapFns, task_input \in OptInputs,
       limits \in LimitChoices, apify_api_token \in TokenArgs :
        InitClient("task", Attributes(task_id, f, task_input, limits),
                   apify_api_token)

\* ---------------------------------------------------------------- run

\* The component is constructed and no call of run is under way.
Idle == pc \in {"CONFIGURED", "DONE", "FAILED"}

\* The component after line 144 / 232: the merged input is bound to run's
\* local name, _merge_inputs builds a new dict, no attribute is assigned.
SelfAfterInput_stored(obj, input) == [obj EXCEPT !.input = input]
SelfAfterInput(obj, input) == obj

\* When a run starts: the dataset id the run before it read from its
\* response, else what was known of the runs before that.
EarlierId == IF dsl.has_client THEN dsl.dataset_id ELSE earlier_id

\* ApifyDatasetFromActorCall.run, lines 144-153: merge the inputs, raise
\* when nothing is left, else send the call.
ActorRun_Lines144To153 ==
    \E run_input \in OptInputs :
        LET merged == merge_inputs(run_input, self.input) IN
        /\ Idle /\ kind = "actor"
        /\ call_input' = run_input
        /\ local_input' = merged
        /\ self' = SelfAfterInput(self, merged)
        /\ IF ~Truthy(merged)
           THEN /\ outcome' = Raised(ErrInput)
                /\ calls' = <<>>
                /\ pc' = "FAILED"
           ELSE /\ outcome' = Pending
                /\ calls' = <<ActorCallRequest(self, merged)>>
                /\ pc' = "TRIGGERED"
        /\ actor_call' = Unbound
        /\ listed' = <<>>
        /\ docs' = <<>>
        /\ clients' = <<>>
        /\ dsl' = NoDsl
        /\ UNCHANGED <<env_token, kind, token_arg, constructed>>

\* ApifyDatasetFromTaskCall.run, lines 232-242.
TaskRun_Lines232To242 ==
    \E task_input \in OptInputs :
        LET chosen == OrDict(task_input, self.input) IN
        /\ Idle /\ kind = "task"
        /\ call_input' = task_input
        /\ local_input' = chosen
        /\ self' = SelfAfterInput(self, chosen)
        /\ IF ~Truthy(chosen)
           THEN /\ outcome' = Raised(ErrInput)
                /\ calls' = <<>>
                /\ pc' = "FAILED"
           ELSE /\ outcome' = Pending
                /\ calls' = <<TaskCallRequest(self, chosen)>>
                /\ pc' = "TRIGGERED"
        /\ actor_call' = Unbound
        /\ listed' = <<>>
        /\ docs' = <<>>
        /\ clients' = <<>>
        /\ dsl' = NoDsl
        /\ UNCHANGED <<env_token, kind, token_arg, constructed>>

\* The start of a run, without and with the record of the run before it.
ActorRun_Start == ActorRun_Lines144To153 /\ UNCHANGED earlier_id
TaskRun_Start == TaskRun_Lines232To242 /\ UNCHANGED earlier_id
ActorRun_StartAfterRun == ActorRun_Lines144To153 /\ earlier_id' = EarlierId
TaskRun_StartAfterRun == TaskRun_Lines232To242 /\ earlier_id' = EarlierId

\* The platform ends the run: call() returns a run dict or None.
CallReturns ==
    \E response \in Responses :
        /\ pc = "TRIGGERED"
        /\ actor_call' = response
        /\ pc' = "COMPLETED"
        /\ UNCHANGED <<env_token, kind, token_arg, self, dsl, call_input,
                       local_input, listed, docs, calls, clients, outcome,
                   constructed, earlier_id>>

\* call() raises: the client's error reaches the caller as it is.
CallRaises ==
    /\ pc = "TRIGGERED"
    /\ outcome' = Raised(ErrTransport)
    /\ pc' = "FAILED"
    /\ UNCHANGED <<env_token, kind, token_arg, self, dsl, call_input,
                   local_input, actor_call, listed, docs, calls, clients,
                   constructed, earlier_id>>

\* actor_call.get("defaultDatasetId")
DefaultDatasetId_run_id(response) == Get(response.d, "id")
DefaultDatasetId_cached(response) ==
    IF earlier_id # None THEN earlier_id
    ELSE Get(response.d, "defaultDatasetId")
DefaultDatasetId(response) == Get(response.d, "defaultDatasetId")

\* Lines 147-163 and 236-252 after call() has returned: the two checks of
\* the response and the construction of the ApifyDatasetLoader.
Extract ==
    LET dataset_id == DefaultDatasetId(actor_call) IN
    /\ pc = "COMPLETED"
    /\ IF ~Truthy(actor_call)
       THEN /\ outcome' = Raised(ErrNoResponse)
            /\ pc' = "FAILED"
            /\ UNCHANGED <<dsl, clients>>
       ELSE IF ~TruthyStr(dataset_id)
       THEN /\ outcome' = Raised(ErrNoDataset)
            /\ pc' = "FAILED"
            /\ UNCHANGED <<dsl, clients>>
       ELSE /\ dsl' = ApifyDatasetLoader(dataset_id,
                                         self.dataset_mapping_function)
            /\ clients' = <<dsl'.client>>
            /\ pc' = "LOADING"
            /\ UNCHANGED outcome
    /\ UNCHANGED <<env_token, kind, token_arg, self, call_input, local_input,
                   actor_call, listed, docs, calls,
                   constructed, earlier_id>>

ActorRun_Extract == kind = "actor" /\ Extract
TaskRun_Extract == kind = "task" /\ Extract

\* ApifyDatasetLoader.run called by the caller itself.
DatasetLoaderRun_Start ==
    /\ Idle /\ kind = "dataset"
    /\ pc' = "LOADING"
    /\ outcome' = Pending
    /\ listed' = <<>>
    /\ docs' = <<>>
    /\ calls' = <<>>
    /\ clients' = <<>>
    /\ UNCHANGED <<env_token, kind, token_arg, self, dsl, call_input,
                   local_input, actor_call,
                   constructed, earlier_id>>

\* Line 61: list_items returns the items of the dataset.
ListItemsReturns ==
    \E items \in Datasets :
        /\ pc = "LOADING"
        /\ calls' = Append(calls, ListItemsRequest(dsl))
        /\ listed' = items
        /\ pc' = "MAPPING"
        /\ UNCHANGED <<env_token, kind, token_arg, self, dsl, call_input,
                       local_input, actor_call, docs, clients, outcome,
                   constructed, earlier_id>>

\* Line 61: list_items raises.
ListItemsRaises_retry ==
    /\ pc = "LOADING"
    /\ Len(calls) < 4
    /\ calls' = Append(calls, ListItemsRequest(dsl))
    /\ UNCHANGED <<env_token, kind, token_arg, self, dsl, pc, call_input,
                   local_input, actor_call, listed, docs, clients, outcome,
                   constructed, earlier_id>>
ListItemsRaises ==
    /\ pc = "LOADING"
    /\ calls' = Append(calls, ListItemsRequest(dsl))
    /\ outcome' = Raised(ErrTransport)
    /\ pc' = "FAILED"
    /\ UNCHANGED <<env_token, kind, token_arg, self, dsl, call_input,
                   local_input, actor_call, listed, docs, clients,
                   constructed, earlier_id>>

\* Line 62, one step of list(map(f, dataset_items)): the list built so far
\* with the next item's document at its end.
MapNext_prepend(f, items, sofar) == <<f[items[Len(sofar) + 1]]>> \o sofar
MapNext(f, items, sofar) == Append(sofar, f[items[Len(sofar) + 1]])

\* What run hands to its caller when the mapping function raises with the
\* documents in sofar already built: the exception, and no list.
MapRaised_partial(sofar) == Returned(sofar)
MapRaised(sofar) == Raised(ErrMapping)

\* Line 62: the dict run returns.
RunResult(documents) == Returned(documents)

MapItem ==
    LET f == dsl.dataset_mapping_function IN
    /\ pc = "MAPPING"
    /\ Len(docs) < Len(listed)
    /\ IF f[listed[Len(docs) + 1]] = Raise
       THEN /\ outcome' = MapRaised(docs)
            /\ pc' = "FAILED"
            /\ UNCHANGED docs
       ELSE /\ docs' = MapNext(f, listed, docs)
            /\ UNCHANGED <<outcome, pc>>
    /\ UNCHANGED <<env_token, kind, token_arg, self, dsl, call_input,
                   local_input, actor_call, listed, calls, clients,
                   constructed, earlier_id>>

RunReturns ==
    /\ pc = "MAPPING"
    /\ Len(docs) = Len(listed)
    /\ outcome' = RunResult(docs)
    /\ pc' = "DONE"
    /\ UNCHANGED <<env_token, kind, token_arg, self, dsl, call_input,
                   local_input, actor_call, listed, docs, calls, clients,
                   constructed, earlier_id>>

Next ==
    \/ DatasetLoaderInit
    \/ ActorInit
    \/ TaskInit
    \/ DatasetLoaderRun_Start
    \/ ActorRun_Start
    \/ TaskRun_Start
    \/ CallReturns
    \/ CallRaises
    \/ ActorRun_Extract
    \/ TaskRun_Extract
    \/ ListItemsReturns
    \/ ListItemsRaises
    \/ MapItem
    \/ RunReturns

Spec == Init /\ [][Next]_vars

\* The same program with a token given to the constructor and none in the
\* environment, and with the dataset id of the run before kept in
\* earlier_id, for the properties of a sequence of runs.
InitRuns == Init /\ env_token = None

NextRuns ==
    \/ DatasetLoaderInit
    \/ ActorInit
    \/ TaskInit
    \/ DatasetLoaderRun_Start
    \/ ActorRun_StartAfterRun
    \/ TaskRun_StartAfterRun
    \/ CallReturns
    \/ CallRaises
    \/ ActorRun_Extract
    \/ TaskRun_Extract
    \/ ListItemsReturns
    \/ ListItemsRaises
    \/ MapItem
    \/ RunReturns

SpecRuns == InitRuns /\ [][NextRuns]_vars

\* ---------------------------------------------------------------- properties

\* What the properties say about the values, in their own words.
Absent(x) == x.isNone \/ x.d = EmptyDict
PresentStr(s) == s \notin {None, Empty}
IsLoaderWithRun == kind \in {"actor", "task"}
Finished == pc \in {"DONE", "FAILED"}
ListCalls == {i \in 1..Len(calls) : calls[i].op = "dataset.list_items"}
TriggerCalls == {i \in 1..Len(calls) : calls[i].op \in {"actor.call", "task.call"}}
\* a with the entries of b over it: the keys of both, b's value on shared keys.
Over(a, b) ==
    [k \in DOMAIN a.d \cup DOMAIN b.d |->
        IF k \in DOMAIN b.d THEN b.d[k] ELSE a.d[k]]
\* list_items has answered with a list in the current run.
Listed == ListCalls # {} /\ pc \in {"MAPPING", "DONE", "FAILED"}
                         /\ outcome.err # ErrTransport
Mapped(f, items) == [i \in 1..Len(items) |-> f[items[i]]]

\* C1: ApifyDatasetLoader.run returns {documents: L} with one document per
\* item list_items returned, L[i] = f(items[i]) in the order of the items;
\* with a total mapping function the run does not fail in the mapping.
C1_OneDocumentPerRecordInOrder ==
    /\ pc = "DONE" =>
          /\ outcome.status = "ok"
          /\ Len(outcome.documents) = Len(listed)
          /\ \A i \in 1..Len(listed) :
                outcome.documents[i] = dsl.dataset_mapping_function[listed[i]]
    /\ (dsl.has_client /\ \A r \in Records :
                             dsl.dataset_mapping_function[r] # Raise)
          => outcome.err # ErrMapping

C1_Witness ==
    /\ kind = "dataset" /\ pc = "DONE"
    /\ Len(listed) >= 2
    /\ outcome.documents[1] # outcome.documents[2]
    /\ \A r \in Records : dsl.dataset_mapping_function[r] # Raise

\* C2: the run input the Actor call gets is the call-time input merged over
\* the constructor-time input: the keys of both, and on a key both define the
\* call-time value.
C2_CallTimeValueWins ==
    (kind = "actor" /\ TriggerCalls # {}) =>
        calls[1].input.d = Over(self.input, call_input)

\* C3: the task input the task call gets is the call-time input merged over
\* the constructor-time input; a non-empty call-time input reaches the call,
\* also when the constructor got none.
C3_TaskCallGetsCallTimeInput ==
    (kind = "task" /\ TriggerCalls # {}) =>
        /\ ~calls[1].input.isNone
        /\ calls[1].input.d = Over(self.input, call_input)

\* C4: for the Actor call, with both inputs non-empty the keys sent are the
\* union of the two key sets and a key only one input defines keeps that
\* input's value; with an absent or empty call-time input the constructor's
\* input is sent, with an absent or empty constructor input the call-time one.
C4_UnionOfKeys ==
    (kind = "actor" /\ TriggerCalls # {}) =>
        LET sent == calls[1].input
            ctor == self.input
        IN  /\ (~Absent(ctor) /\ ~Absent(call_input)) =>
                  /\ ~sent.isNone
                  /\ DOMAIN sent.d = DOMAIN ctor.d \cup DOMAIN call_input.d
                  /\ \A k \in DOMAIN ctor.d \ DOMAIN call_input.d :
                        sent.d[k] = ctor.d[k]
                  /\ \A k \in DOMAIN call_input.d \ DOMAIN ctor.d :
                        sent.d[k] = call_input.d[k]
            /\ Absent(call_input) => sent = ctor
            /\ Absent(ctor) => sent = call_input

C4_Witness ==
    /\ kind = "actor" /\ TriggerCalls # {}
    /\ DOMAIN self.input.d = {"maxCrawlPages"}
    /\ DOMAIN call_input.d = {"startUrls"}
    /\ DOMAIN calls[1].input.d = {"maxCrawlPages", "startUrls"}

\* C5: when the constructor-time and the call-time input are both None or
\* empty, run of the Actor and of the Task component raises the error about
\* the missing input and makes no remote call, trigger or list_items.
C5_NoInputNoRemoteCall ==
    (IsLoaderWithRun /\ pc \notin {"NEW", "INIT_FAILED", "CONFIGURED"}
        /\ Absent(self.input) /\ Absent(call_input)) =>
        /\ pc = "FAILED"
        /\ outcome = Raised(ErrInput)
        /\ calls = <<>>

C5_Witness ==
    /\ kind = "task" /\ pc = "FAILED"
    /\ self.input = NoneDict /\ call_input = Some(EmptyDict)
    /\ outcome.err = ErrInput /\ calls = <<>>

\* C6: the Actor and the Task constructor take the api token from the
\* argument when that is given and not empty, else from the environment;
\* with neither they raise the error about the token and build no client.
C6_TokenResolution ==
    (IsLoaderWithRun /\ pc # "NEW") =>
        LET expected == IF PresentStr(token_arg) THEN token_arg ELSE env_token
        IN  IF PresentStr(expected)
            THEN /\ pc # "INIT_FAILED"
                 /\ self.has_client
                 /\ self.client.token = expected
                 /\ pc = "CONFIGURED" => clients = <<[token |-> expected]>>
            ELSE /\ pc = "INIT_FAILED"
                 /\ outcome = Raised(ErrToken)
                 /\ ~self.has_client
                 /\ clients = <<>>

C6_Witness ==
    /\ kind = "task" /\ pc = "INIT_FAILED"
    /\ token_arg = Empty /\ env_token = None
    /\ clients = <<>>

\* C7: a run response that is not empty but has no defaultDatasetId, or an
\* empty one, makes run raise the "No dataset found" error, and list_items
\* is not called.
C7_NoDatasetIdNoFetch ==
    (IsLoaderWithRun /\ pc # "COMPLETED" /\ ~Absent(actor_call)
        /\ ("defaultDatasetId" \in DOMAIN actor_call.d
                => ~PresentStr(actor_call.d["defaultDatasetId"]))) =>
        /\ pc = "FAILED"
        /\ outcome = Raised(ErrNoDataset)
        /\ ListCalls = {}

C7_Witness ==
    /\ kind = "actor" /\ pc = "FAILED"
    /\ actor_call = Some([id |-> "run1"])
    /\ outcome.err = ErrNoDataset

\* C8: a run response that is None or {} makes run raise the "No response
\* found" error, which is not the "No dataset found" error, and list_items is
\* not called.
C8_NoResponseNoFetch ==
    (IsLoaderWithRun /\ pc # "COMPLETED"
        /\ actor_call \in {NoneDict, Some(EmptyDict)}) =>
        /\ pc = "FAILED"
        /\ outcome = Raised(ErrNoResponse)
        /\ outcome.err # ErrNoDataset
        /\ ListCalls = {}

C8_Witness ==
    /\ kind = "task" /\ pc = "FAILED"
    /\ actor_call = Some(EmptyDict)
    /\ outcome.err = ErrNoResponse

\* C9: with a dataset id d in the run response, run of the Actor and of the
\* Task component gives what ApifyDatasetLoader(d, f).run() gives for the
\* component's own mapping function f: the same list_items call, and from
\* its answer the same documents in the same order, or the same error.
C9_SameAsDatasetLoader ==
    (IsLoaderWithRun /\ pc \in {"LOADING", "MAPPING", "DONE", "FAILED"}
        /\ ~Absent(actor_call) /\ "defaultDatasetId" \in DOMAIN actor_call.d
        /\ PresentStr(actor_call.d["defaultDatasetId"])) =>
        LET d == actor_call.d["defaultDatasetId"]
            f == self.dataset_mapping_function
        IN  /\ dsl.has_client /\ dsl.dataset_id = d
            /\ pc # "LOADING" =>
                  /\ Len(calls) = 2
                  /\ calls[2] = [build |-> None, memory_mbytes |-> None,
                                 timeout_secs |-> None, id |-> d,
                                 token |-> None, input |-> NoneDict,
                                 op |-> "dataset.list_items", clean |-> TRUE]
            /\ (Finished /\ Listed) =>
                  outcome = IF \E i \in 1..Len(listed) : f[listed[i]] = Raise
                            THEN Raised(ErrMapping)
                            ELSE Returned(Mapped(f, listed))
            /\ (Finished /\ ~Listed) => outcome = Raised(ErrTransport)

C9_Witness ==
    /\ kind = "actor" /\ pc = "DONE"
    /\ actor_call = Some([id |-> "run1", defaultDatasetId |-> "d2"])
    /\ calls[2].id = "d2"
    /\ Len(outcome.documents) >= 2
    /\ outcome.documents[1] # outcome.documents[2]

\* C10: a run ends in one of two ways: it returns the complete list, one
\* document per item, or it raises and returns no document.  When the
\* mapping function raises on an item, the caller gets the error and none of
\* the documents mapped before it; until the run ends the caller has nothing.
C10_AllOrNothing ==
    /\ Finished =>
          \/ /\ outcome.status = "ok"
             /\ Listed
             /\ Len(outcome.documents) = Len(listed)
          \/ /\ outcome.status = "error"
             /\ outcome.documents = <<>>
    /\ (Finished /\ Listed
          /\ \E i \in 1..Len(listed) :
                dsl.dataset_mapping_function[listed[i]] = Raise)
          => outcome = Raised(ErrMapping)
    /\ pc \in {"TRIGGERED", "COMPLETED", "LOADING", "MAPPING"} =>
          outcome.status = "pending"

C10_Witness ==
    /\ kind = "actor" /\ pc = "FAILED"
    /\ outcome = Raised(ErrMapping)
    /\ Len(docs) >= 1

\* C11: in one run of the Actor or the Task component the remote calls come
\* in the order trigger, then list_items, each at most once: the trigger
\* call only when the merged input passed the check, list_items only after
\* the trigger call returned a response with a dataset id; a run that failed
\* has made the calls up to the failing step and no other.
C11_CallOrderNoRetry ==
    IsLoaderWithRun =>
        /\ Cardinality(TriggerCalls) <= 1
        /\ Cardinality(ListCalls) <= 1
        /\ TriggerCalls # {} =>
              /\ TriggerCalls = {1}
              /\ ~(Absent(self.input) /\ Absent(call_input))
        /\ ListCalls # {} =>
              /\ ListCalls = {2} /\ TriggerCalls = {1}
              /\ ~Absent(actor_call)
              /\ "defaultDatasetId" \in DOMAIN actor_call.d
              /\ PresentStr(actor_call.d["defaultDatasetId"])
        /\ pc \in {"NEW", "INIT_FAILED", "CONFIGURED"} => calls = <<>>
        /\ pc \in {"TRIGGERED", "COMPLETED", "LOADING"} => Len(calls) = 1
        /\ pc \in {"MAPPING", "DONE"} => Len(calls) = 2
        /\ pc = "FAILED" =>
              Len(calls) = CASE outcome.err = ErrInput -> 0
                             [] outcome.err = ErrNoResponse -> 1
                             [] outcome.err = ErrNoDataset -> 1
                             [] outcome.err = ErrMapping -> 2
                             [] OTHER -> IF dsl.has_client THEN 2 ELSE 1

C11_Witness ==
    /\ kind = "task" /\ pc = "DONE"
    /\ Len(calls) = 2
    /\ calls[1].op = "task.call"
    /\ calls[2].op = "dataset.list_items"

\* C12: in every run of a sequence of runs of one Actor or Task component,
\* list_items is called for the dataset id in the response of that run's own
\* trigger call; when that response has no id there is no list_items call
\* and no loader, whatever id an earlier run got.
C12_IdOfOwnRun ==
    IsLoaderWithRun =>
        LET own == IF "defaultDatasetId" \in DOMAIN actor_call.d
                   THEN actor_call.d["defaultDatasetId"] ELSE None
        IN  /\ \A i \in ListCalls : PresentStr(own) /\ calls[i].id = own
            /\ dsl.has_client => dsl.dataset_id = own
            /\ ~PresentStr(own) => ListCalls = {} /\ ~dsl.has_client

C12_Witness ==
    /\ kind = "task"
    /\ earlier_id = "d1"
    /\ ListCalls = {2}
    /\ calls[2].id = "d2"
    /\ actor_call.d["defaultDatasetId"] = "d2"

\* C13: run leaves the component as the constructor made it: after any
\* runs the stored input, id, build, memory limit, timeout and mapping
\* function are the constructor's, and what a trigger call is sent comes
\* from the constructor's values and that run's own call-time input only.
C13_RunKeepsConfiguration ==
    (IsLoaderWithRun /\ pc # "NEW") =>
        /\ self.input = constructed.input
        /\ self.id = constructed.id
        /\ self.build = constructed.build
        /\ self.memory_mbytes = constructed.memory_mbytes
        /\ self.timeout_secs = constructed.timeout_secs
        /\ self.dataset_mapping_function = constructed.dataset_mapping_function
        /\ \A i \in TriggerCalls :
              /\ calls[i].id = constructed.id
              /\ calls[i].build = constructed.build
              /\ calls[i].memory_mbytes = constructed.memory_mbytes
              /\ calls[i].timeout_secs = constructed.timeout_secs
              /\ \A k \in DOMAIN calls[i].input.d :
                    \/ /\ k \in DOMAIN constructed.input.d
                       /\ calls[i].input.d[k] = constructed.input.d[k]
                    \/ /\ k \in DOMAIN call_input.d
                       /\ calls[i].input.d[k] = call_input.d[k]
        /\ dsl.has_client =>
              dsl.dataset_mapping_function = constructed.dataset_mapping_function

C13_Witness ==
    /\ kind = "actor" /\ pc = "TRIGGERED"
    /\ earlier_id # None
    /\ call_input = NoneDict
    /\ constructed.input = Some([maxCrawlPages |-> 3])
    /\ calls[1].input = constructed.input

\* C14: none of the three components makes a remote call unless a token was
\* given to the constructor or is in the environment.
C14_NoCallWithoutToken ==
    calls # <<>> => (PresentStr(token_arg) \/ PresentStr(env_token))

\* C15: every remote call of a run of the Actor or Task component, the
\* trigger call and the list_items call, is sent with the token the
\* constructor resolved.
C15_CallsCarryResolvedToken ==
    IsLoaderWithRun =>
        \A i \in 1..Len(calls) : calls[i].token = self.client.token

====
